---- MODULE Spec2Model ----
(***************************************************************************)
(* Seam carving (src/src/seam_carving.rs): shrink_width,                   *)
(* find_vertical_seam, set_path_energy, remove_vertical_seam and           *)
(* draw_vertical_seams, as a state machine of one caller invoking one of   *)
(* the public operations on an image.                                      *)
(*                                                                         *)
(* An image is a record [width, height, px] with px[y][x] the pixel at     *)
(* column x of row y, both counted from 0 as in the source.                *)
(***************************************************************************)
EXTENDS Integers, Sequences, FiniteSets

\* Bounds of the model: the sides and the area of the caller's image, and the
\* largest energy of a cell of the gradient map.
MaxWidth == 3
MaxHeight == 3
MaxCells == 9
MaxEnergy == 1

VARIABLES
    op,            \* the public operation the caller invokes
    image,         \* the caller's image argument
    target_width,  \* shrink_width's target_width argument
    arg_seam,      \* remove_vertical_seam's seam argument
    pc,            \* position in the code
    status,        \* "running", "ok", or the message of the panic
    result,        \* shrink_width's `result`; the image find_vertical_seam works on
    iterations,    \* shrink_width's `iterations`
    done_iters,    \* loop iterations of shrink_width completed so far
    gradients,     \* find_vertical_seam's `gradients` (accumulated in place)
    raw,           \* the gradient map as sobel_gradient_map returned it
    x, y,          \* loop indices of find_vertical_seam
    min_x, min_energy, last_x,
    seam,          \* find_vertical_seam's `seam` (bottom row first)
    seams,         \* the seams removed so far, in order
    out,           \* the image returned by shrink_width / remove_vertical_seam
    drawn          \* the result of draw_vertical_seams

vars == <<op, image, target_width, arg_seam, pc, status, result, iterations,
          done_iters, gradients, raw, x, y, min_x, min_energy, last_x, seam,
          seams, out, drawn>>

find_vars == <<gradients, raw, x, y, min_x, min_energy, last_x, seam>>
call_vars == <<op, image, target_width, arg_seam>>

----------------------------------------------------------------------------
\* The pixel-grid abstraction (image::ImageBuffer).

Min(S) == CHOOSE m \in S : \A n \in S : m <= n
min(a, b) == IF a <= b THEN a ELSE b

NewImage(w, h, v) ==
    [width |-> w, height |-> h, px |-> [yy \in 0..(h - 1) |-> [xx \in 0..(w - 1) |-> v]]]

NoImage == NewImage(0, 0, 0)

in_bounds(img, xx, yy) ==
    /\ 0 <= xx /\ xx < img.width
    /\ 0 <= yy /\ yy < img.height

\* get_pixel panics outside the grid; OutOfBounds stands for that panic.
OutOfBounds == -1

get_pixel(img, xx, yy) ==
    IF in_bounds(img, xx, yy) THEN img.px[yy][xx] ELSE OutOfBounds

put_pixel(img, xx, yy, v) ==
    [img EXCEPT !.px[yy][xx] = v]

\* The caller's grayscale images: one with pairwise distinct pixels, one flat.
RampImage(w, h) ==
    [width |-> w, height |-> h,
     px |-> [yy \in 0..(h - 1) |-> [xx \in 0..(w - 1) |-> 10 + xx + w * yy]]]

Images(w, h) == {RampImage(w, h), NewImage(w, h, 0)}

\* The grid of the scenario: rows from the top, [[1,5,1],[1,1,1],[5,1,1]].
ScenarioRows == <<(<<1, 5, 1>>), (<<1, 1, 1>>), (<<5, 1, 1>>)>>
ScenarioGrid ==
    [width |-> 3, height |-> 3,
     px |-> [yy \in 0..2 |-> [xx \in 0..2 |-> ScenarioRows[yy + 1][xx + 1]]]]

\* sobel_gradient_map, a black box: any equal-sized grid of non-negative
\* energies.
sobel_gradient_map(img) ==
    { [width |-> img.width, height |-> img.height, px |-> p] :
        p \in [0..(img.height - 1) -> [0..(img.width - 1) -> 0..MaxEnergy]] }
    \cup (IF img.width = 3 /\ img.height = 3 THEN {ScenarioGrid} ELSE {})

----------------------------------------------------------------------------
\* set_path_energy reading the up-left value from the row being written
\* instead of the row above.
set_path_energy_same_row(path_energies, xx, yy) ==
    LET above == get_pixel(path_energies, xx, yy - 1)
        has_left == xx > 0
        has_right == xx < path_energies.width - 1
        above_left == get_pixel(path_energies, xx - 1, yy)
        above_right == get_pixel(path_energies, xx + 1, yy - 1)
        m1 == IF has_left THEN min(above, above_left) ELSE above
        m2 == IF has_right THEN min(m1, above_right) ELSE m1
        current == get_pixel(path_energies, xx, yy)
    IN  [reads |-> {<<xx, yy - 1>>, <<xx, yy>>}
                   \cup (IF has_left THEN {<<xx - 1, yy>>} ELSE {})
                   \cup (IF has_right THEN {<<xx + 1, yy - 1>>} ELSE {}),
         grid |-> put_pixel(path_energies, xx, yy, m2 + current)]

\* set_path_energy: the new grid, and the cells it read.
set_path_energy(path_energies, xx, yy) ==
    LET above == get_pixel(path_energies, xx, yy - 1)
        has_left == xx > 0
        has_right == xx < path_energies.width - 1
        above_left == get_pixel(path_energies, xx - 1, yy - 1)
        above_right == get_pixel(path_energies, xx + 1, yy - 1)
        m1 == IF has_left THEN min(above, above_left) ELSE above
        m2 == IF has_right THEN min(m1, above_right) ELSE m1
        current == get_pixel(path_energies, xx, yy)
    IN  [reads |-> {<<xx, yy - 1>>, <<xx, yy>>}
                   \cup (IF has_left THEN {<<xx - 1, yy - 1>>} ELSE {})
                   \cup (IF has_right THEN {<<xx + 1, yy - 1>>} ELSE {}),
         grid |-> put_pixel(path_energies, xx, yy, m2 + current)]

\* The retrace step with the right-hand guard off by one
\* (last_x < width instead of last_x < width - 1).
retrace_step_off_by_one(g, lx, yy, mx, me) ==
    LET above == get_pixel(g, lx, yy - 1)
        has_left == lx > 0
        has_right == lx < g.width
        left == get_pixel(g, lx - 1, yy - 1)
        right == get_pixel(g, lx + 1, yy - 1)
        take_left == has_left /\ left < above
        mx1 == IF take_left THEN lx - 1 ELSE mx
        me1 == IF take_left THEN left ELSE me
        take_right == has_right /\ right < me1
    IN  [reads |-> {<<lx, yy - 1>>}
                   \cup (IF has_left THEN {<<lx - 1, yy - 1>>} ELSE {})
                   \cup (IF has_right THEN {<<lx + 1, yy - 1>>} ELSE {}),
         min_x |-> IF take_right THEN lx + 1 ELSE mx1,
         min_energy |-> IF take_right THEN right ELSE me1]

\* One iteration of the retrace loop of find_vertical_seam, from last_x in
\* row yy, with min_x and min_energy as the previous iteration left them.
retrace_step(g, lx, yy, mx, me) ==
    LET above == get_pixel(g, lx, yy - 1)
        has_left == lx > 0
        has_right == lx < g.width - 1
        left == get_pixel(g, lx - 1, yy - 1)
        right == get_pixel(g, lx + 1, yy - 1)
        take_left == has_left /\ left < above
        mx1 == IF take_left THEN lx - 1 ELSE mx
        me1 == IF take_left THEN left ELSE me
        take_right == has_right /\ right < me1
    IN  [reads |-> {<<lx, yy - 1>>}
                   \cup (IF has_left THEN {<<lx - 1, yy - 1>>} ELSE {})
                   \cup (IF has_right THEN {<<lx + 1, yy - 1>>} ELSE {}),
         min_x |-> IF take_right THEN lx + 1 ELSE mx1,
         min_energy |-> IF take_right THEN right ELSE me1]

\* The width assertion letting a 1-column image through.
width_assertion_off_by_one(img) == img.width >= 1

\* line 40: assert!(image.width() >= 2, ...)
width_assertion(img) == img.width >= 2

all_in_bounds(img, reads) == \A r \in reads : in_bounds(img, r[1], r[2])

----------------------------------------------------------------------------
\* remove_vertical_seam reading the seam top row first (seam[y] for row y).
remove_vertical_seam_top_first(img, s) ==
    LET width == img.width
        height == img.height
        x_seam(yy) == s[yy + 1]
        first_loop(yy) == 0..(x_seam(yy) - 1)
        second_loop(yy) == (x_seam(yy) + 1)..(width - 1)
    IN  [ok |-> \A yy \in 0..(height - 1) :
                  /\ \A xx \in first_loop(yy) : xx < width - 1 /\ xx < width
                  /\ \A xx \in second_loop(yy) : xx - 1 >= 0,
         image |->
            [width |-> width - 1, height |-> height,
             px |-> [yy \in 0..(height - 1) |->
                       [xx \in 0..(width - 2) |->
                          IF xx \in first_loop(yy) THEN get_pixel(img, xx, yy)
                          ELSE IF (xx + 1) \in second_loop(yy)
                               THEN get_pixel(img, xx + 1, yy)
                               ELSE 0]]]]

\* remove_vertical_seam, lines 119-132, after the length assertion: `out` is
\* allocated zeroed, then each row takes the columns before x_seam and the
\* columns after it moved one to the left.  A put_pixel outside `out` panics.
remove_vertical_seam(img, s) ==
    LET width == img.width
        height == img.height
        x_seam(yy) == s[(height - yy - 1) + 1]
        first_loop(yy) == 0..(x_seam(yy) - 1)
        second_loop(yy) == (x_seam(yy) + 1)..(width - 1)
    IN  [ok |-> \A yy \in 0..(height - 1) :
                  /\ \A xx \in first_loop(yy) : xx < width - 1 /\ xx < width
                  /\ \A xx \in second_loop(yy) : xx - 1 >= 0,
         image |->
            [width |-> width - 1, height |-> height,
             px |-> [yy \in 0..(height - 1) |->
                       [xx \in 0..(width - 2) |->
                          IF xx \in first_loop(yy) THEN get_pixel(img, xx, yy)
                          ELSE IF (xx + 1) \in second_loop(yy)
                               THEN get_pixel(img, xx + 1, yy)
                               ELSE 0]]]]

\* map_colors(image, |p| p.to_rgb()) and the red of line 151.
to_rgb(p) == <<p, p, p>>
Red == <<255, 0, 0>>
map_colors(img) ==
    [width |-> img.width, height |-> img.height,
     px |-> [yy \in 0..(img.height - 1) |->
               [xx \in 0..(img.width - 1) |-> to_rgb(img.px[yy][xx])]]]

\* lines 145-150: the column a seam entry is drawn at, given the columns
\* already pushed to the row's offsets.
x_original(offs, xx) ==
    xx + Cardinality({i \in 1..Len(offs) : offs[i] < xx})

\* draw_seam zipping the rows top first (0..height without .rev()).
draw_seam_top_first(st, s) ==
    LET height == st.out.height
        has(yy) == yy < Len(s)
        xo(yy) == x_original(st.offsets[yy], s[yy + 1])
    IN  [ok |-> st.ok /\ \A yy \in 0..(height - 1) :
                            has(yy) => in_bounds(st.out, xo(yy), yy),
         offsets |-> [yy \in 0..(height - 1) |->
                        IF has(yy) THEN Append(st.offsets[yy], xo(yy))
                        ELSE st.offsets[yy]],
         out |-> [st.out EXCEPT !.px =
                    [yy \in 0..(height - 1) |->
                       [xx \in 0..(st.out.width - 1) |->
                          IF has(yy) /\ xx = xo(yy) THEN Red
                          ELSE st.out.px[yy][xx]]]]]

\* lines 144-153: one seam drawn; rows height-1, height-2, ... are zipped with
\* the seam's entries, so a row beyond the seam's length is left alone.
draw_seam(st, s) ==
    LET height == st.out.height
        has(yy) == (height - 1 - yy) < Len(s)
        xo(yy) == x_original(st.offsets[yy], s[(height - 1 - yy) + 1])
    IN  [ok |-> st.ok /\ \A yy \in 0..(height - 1) :
                            has(yy) => in_bounds(st.out, xo(yy), yy),
         offsets |-> [yy \in 0..(height - 1) |->
                        IF has(yy) THEN Append(st.offsets[yy], xo(yy))
                        ELSE st.offsets[yy]],
         out |-> [st.out EXCEPT !.px =
                    [yy \in 0..(height - 1) |->
                       [xx \in 0..(st.out.width - 1) |->
                          IF has(yy) /\ xx = xo(yy) THEN Red
                          ELSE st.out.px[yy][xx]]]]]

RECURSIVE draw_seams(_, _, _)
draw_seams(st, ss, n) ==
    IF n = 0 THEN st ELSE draw_seam(draw_seams(st, ss, n - 1), ss[n])

\* draw_vertical_seams, lines 137-157.
draw_vertical_seams(img, ss) ==
    draw_seams([ok |-> TRUE,
                offsets |-> [yy \in 0..(img.height - 1) |-> <<>>],
                out |-> map_colors(img)],
               ss, Len(ss))

----------------------------------------------------------------------------
Ops == {"shrink_width", "find_vertical_seam", "remove_vertical_seam"}

\* The seams a caller may hand to remove_vertical_seam on an image w wide:
\* any length up to MaxHeight, every entry a column of the image.
ArgSeams(w) == UNION { [1..n -> 0..(w - 1)] : n \in 0..MaxHeight }

Init ==
    /\ op \in Ops
    /\ \E w \in 1..MaxWidth, h \in 1..MaxHeight :
          /\ w * h <= MaxCells
          /\ image \in Images(w, h)
    /\ target_width \in (IF op = "shrink_width" THEN 0..(image.width + 1) ELSE {0})
    /\ arg_seam \in (IF op = "remove_vertical_seam" THEN ArgSeams(image.width) ELSE {<<>>})
    /\ pc = "call"
    /\ status = "running"
    /\ result = (IF op = "find_vertical_seam" THEN image ELSE NoImage)
    /\ iterations = 0
    /\ done_iters = 0
    /\ gradients = NoImage
    /\ raw = NoImage
    /\ x = 0 /\ y = 0
    /\ min_x = 0 /\ min_energy = 0 /\ last_x = 0
    /\ seam = <<>>
    /\ seams = <<>>
    /\ out = NoImage
    /\ drawn = NoImage

Panic(msg) ==
    /\ pc' = "panicked"
    /\ status' = msg

----------------------------------------------------------------------------
\* find_vertical_seam

\* lines 38-42: the width assertion, then the gradient map; the loop of
\* lines 45-49 starts at y = 1 and is empty when height = 1.
find_entry ==
    /\ \/ pc = "call" /\ op = "find_vertical_seam"
       \/ pc = "find_vertical_seam"
    /\ IF width_assertion(result)
       THEN /\ \E g \in sobel_gradient_map(result) :
                  /\ gradients' = g
                  /\ raw' = g
            /\ x' = 0
            /\ y' = 1
            /\ pc' = "accumulate"
            /\ seam' = <<>>
            /\ UNCHANGED <<status, min_x, min_energy, last_x>>
       ELSE /\ Panic("Cannot find seams if image width is < 2")
            /\ UNCHANGED find_vars
    /\ UNCHANGED <<call_vars, result, iterations, done_iters, seams, out, drawn>>

\* lines 45-49: one call of set_path_energy, or the loop's exit.
accumulate ==
    /\ pc = "accumulate"
    /\ IF y < result.height
       THEN LET r == set_path_energy(gradients, x, y) IN
            IF all_in_bounds(gradients, r.reads)
            THEN /\ gradients' = r.grid
                 /\ IF x + 1 < result.width
                    THEN x' = x + 1 /\ y' = y
                    ELSE x' = 0 /\ y' = y + 1
                 /\ UNCHANGED <<pc, status>>
            ELSE /\ Panic("Image index out of bounds")
                 /\ UNCHANGED <<gradients, x, y>>
       ELSE /\ pc' = "scan"
            /\ UNCHANGED <<gradients, x, y, status>>
    /\ UNCHANGED <<call_vars, result, iterations, done_iters, raw, min_x,
                   min_energy, last_x, seam, seams, out, drawn>>

\* lines 52-53
scan_init ==
    /\ pc = "scan"
    /\ IF in_bounds(gradients, 0, result.height - 1)
       THEN /\ min_x' = 0
            /\ min_energy' = get_pixel(gradients, 0, result.height - 1)
            /\ x' = 1
            /\ pc' = "scan_loop"
            /\ UNCHANGED status
       ELSE /\ Panic("Image index out of bounds")
            /\ UNCHANGED <<min_x, min_energy, x>>
    /\ UNCHANGED <<call_vars, result, iterations, done_iters, gradients, raw,
                   y, last_x, seam, seams, out, drawn>>

\* lines 55-61: one iteration of the bottom-row scan; lines 63-67 at its exit.
scan_loop ==
    /\ pc = "scan_loop"
    /\ IF x < result.width
       THEN IF in_bounds(gradients, x, result.height - 1)
            THEN LET c == get_pixel(gradients, x, result.height - 1) IN
                 /\ IF c < min_energy
                    THEN min_x' = x /\ min_energy' = c
                    ELSE UNCHANGED <<min_x, min_energy>>
                 /\ x' = x + 1
                 /\ UNCHANGED <<pc, status, seam, last_x, y>>
            ELSE /\ Panic("Image index out of bounds")
                 /\ UNCHANGED <<min_x, min_energy, x, seam, last_x, y>>
       ELSE /\ seam' = <<min_x>>
            /\ last_x' = min_x
            /\ y' = result.height - 1
            /\ pc' = "retrace"
            /\ UNCHANGED <<min_x, min_energy, x, status>>
    /\ UNCHANGED <<call_vars, result, iterations, done_iters, gradients, raw,
                   seams, out, drawn>>

\* lines 69-88: one iteration of the retrace loop (y from height-1 down to 1),
\* or its exit.
retrace ==
    /\ pc = "retrace"
    /\ IF y >= 1
       THEN LET r == retrace_step(gradients, last_x, y, min_x, min_energy) IN
            IF all_in_bounds(gradients, r.reads)
            THEN /\ min_x' = r.min_x
                 /\ min_energy' = r.min_energy
                 /\ last_x' = r.min_x
                 /\ seam' = Append(seam, r.min_x)
                 /\ y' = y - 1
                 /\ UNCHANGED <<pc, status>>
            ELSE /\ Panic("Image index out of bounds")
                 /\ UNCHANGED <<min_x, min_energy, last_x, seam, y>>
       ELSE /\ pc' = "find_return"
            /\ UNCHANGED <<min_x, min_energy, last_x, seam, y, status>>
    /\ UNCHANGED <<call_vars, result, iterations, done_iters, gradients, raw,
                   x, seams, out, drawn>>

\* line 90: the seam is returned, to the caller or to shrink_width's loop;
\* the locals of find_vertical_seam are dropped.
find_return ==
    /\ pc = "find_return"
    /\ IF op = "find_vertical_seam"
       THEN pc' = "done" /\ status' = "ok"
       ELSE pc' = "remove_vertical_seam" /\ UNCHANGED status
    /\ gradients' = NoImage
    /\ raw' = NoImage
    /\ x' = 0 /\ y' = 0
    /\ min_x' = 0 /\ min_energy' = 0 /\ last_x' = 0
    /\ UNCHANGED <<call_vars, result, iterations, done_iters, seam, seams,
                   out, drawn>>

----------------------------------------------------------------------------
\* shrink_width

\* lines 23-26
shrink_entry ==
    /\ pc = "call" /\ op = "shrink_width"
    /\ IF target_width <= image.width
       THEN /\ iterations' = image.width - target_width
            /\ result' = image
            /\ pc' = "shrink_loop"
            /\ UNCHANGED status
       ELSE /\ Panic("target_width must be <= input image width")
            /\ UNCHANGED <<iterations, result>>
    /\ UNCHANGED <<call_vars, done_iters, find_vars, seams, out, drawn>>

\* The loop of shrink_width running once more (0..=iterations).
shrink_loop_one_more ==
    /\ pc = "shrink_loop"
    /\ IF done_iters <= iterations
       THEN /\ pc' = "find_vertical_seam"
            /\ UNCHANGED <<status, out>>
       ELSE /\ pc' = "done"
            /\ status' = "ok"
            /\ out' = result
    /\ UNCHANGED <<call_vars, result, iterations, done_iters, find_vars, seams,
                   drawn>>

\* line 28, and line 33 at the loop's exit
shrink_loop ==
    /\ pc = "shrink_loop"
    /\ IF done_iters < iterations
       THEN /\ pc' = "find_vertical_seam"
            /\ UNCHANGED <<status, out>>
       ELSE /\ pc' = "done"
            /\ status' = "ok"
            /\ out' = result
    /\ UNCHANGED <<call_vars, result, iterations, done_iters, find_vars, seams,
                   drawn>>

\* line 30: the seam just found is removed from `result`.
shrink_remove ==
    /\ pc = "remove_vertical_seam"
    /\ IF Len(seam) # result.height
       THEN /\ Panic("seam length does not match image height")
            /\ UNCHANGED <<result, seams, done_iters>>
       ELSE LET r == remove_vertical_seam(result, seam) IN
            IF r.ok
            THEN /\ result' = r.image
                 /\ seams' = Append(seams, seam)
                 /\ done_iters' = done_iters + 1
                 /\ pc' = "shrink_loop"
                 /\ UNCHANGED status
            ELSE /\ Panic("Image index out of bounds")
                 /\ UNCHANGED <<result, seams, done_iters>>
    /\ UNCHANGED <<call_vars, iterations, find_vars, out, drawn>>

\* remove_vertical_seam called by the caller, lines 116-133.
remove_call ==
    /\ pc = "call" /\ op = "remove_vertical_seam"
    /\ IF Len(arg_seam) # image.height
       THEN /\ Panic("seam length does not match image height")
            /\ UNCHANGED <<out, seams>>
       ELSE LET r == remove_vertical_seam(image, arg_seam) IN
            IF r.ok
            THEN /\ out' = r.image
                 /\ seams' = <<arg_seam>>
                 /\ pc' = "done"
                 /\ status' = "ok"
            ELSE /\ Panic("Image index out of bounds")
                 /\ UNCHANGED <<out, seams>>
    /\ UNCHANGED <<call_vars, result, iterations, done_iters, find_vars, drawn>>

\* draw_vertical_seams on the caller's image and the seams removed from it.
draw_call ==
    /\ pc = "done"
    /\ op \in {"shrink_width", "remove_vertical_seam"}
    /\ LET r == draw_vertical_seams(image, seams) IN
       IF r.ok
       THEN /\ drawn' = r.out
            /\ pc' = "drawn"
            /\ UNCHANGED status
       ELSE /\ Panic("Image index out of bounds")
            /\ UNCHANGED drawn
    /\ UNCHANGED <<call_vars, result, iterations, done_iters, find_vars, seams,
                   out>>

Next ==
    \/ shrink_entry
    \/ shrink_loop
    \/ shrink_remove
    \/ remove_call
    \/ draw_call
    \/ find_entry
    \/ accumulate
    \/ scan_init
    \/ scan_loop
    \/ retrace
    \/ find_return

Spec == Init /\ [][Next]_vars

----------------------------------------------------------------------------
\* What the claims are stated in.

\* The 8-connected paths from row 0 down to cell (xx, yy) of a grid w wide,
\* one cell per row, and the raw energy along one of them.
PathsTo(w, xx, yy) ==
    { p \in [0..yy -> 0..(w - 1)] :
        /\ p[yy] = xx
        /\ \A r \in 1..yy : p[r] - p[r - 1] \in {-1, 0, 1} }

RECURSIVE PathEnergy(_, _, _)
PathEnergy(g, p, yy) ==
    IF yy < 0 THEN 0 ELSE g.px[yy][p[yy]] + PathEnergy(g, p, yy - 1)

MinPathTo(g, xx, yy) ==
    Min({ PathEnergy(g, p, yy) : p \in PathsTo(g.width, xx, yy) })

\* The column a seam (bottom row first) holds for row yy of an image h high.
SeamColumn(s, h, yy) == s[(h - 1 - yy) + 1]
SeamPath(s, h) == [yy \in 0..(h - 1) |-> SeamColumn(s, h, yy)]

BottomRow(g) == { g.px[g.height - 1][xx] : xx \in 0..(g.width - 1) }

InFind == pc \in {"accumulate", "scan", "scan_loop", "retrace", "find_return"}

\* C1: the seam find_vertical_seam returns has minimal total raw energy among
\* all 8-connected top-to-bottom paths, and that total equals the smallest
\* accumulated value of the bottom row.
C1_SeamIsMinimal ==
    pc = "find_return" =>
        LET e == PathEnergy(raw, SeamPath(seam, raw.height), raw.height - 1) IN
        /\ \A xx \in 0..(raw.width - 1) :
             \A p \in PathsTo(raw.width, xx, raw.height - 1) :
                e <= PathEnergy(raw, p, raw.height - 1)
        /\ e = Min(BottomRow(gradients))

\* The left-biased choice of the claim: from column c of row yy, the
\* candidate of row yy - 1 with the smallest accumulated value, up-left
\* replacing up only if strictly smaller, up-right replacing the current
\* minimum only if strictly smaller.
LeftBiasedChoice(g, c, yy) ==
    LET best1 == IF c > 0 /\ g.px[yy - 1][c - 1] < g.px[yy - 1][c] THEN c - 1 ELSE c
    IN  IF c < g.width - 1 /\ g.px[yy - 1][c + 1] < g.px[yy - 1][best1]
        THEN c + 1 ELSE best1

LeftmostMin(g) ==
    Min({ xx \in 0..(g.width - 1) : g.px[g.height - 1][xx] = Min(BottomRow(g)) })

\* C2: the seam starts at the leftmost minimum of the bottom row, every
\* upward step takes the left-biased smallest candidate, and the scenario
\* grid [[1,5,1],[1,1,1],[5,1,1]] yields the seam [1,1,0].
C2_LeftBiasedRetrace ==
    /\ pc \in {"retrace", "find_return"} =>
         /\ seam[1] = LeftmostMin(gradients)
         /\ \A k \in 2..Len(seam) :
              seam[k] = LeftBiasedChoice(gradients, seam[k - 1], gradients.height - (k - 1))
    /\ (pc = "find_return" /\ raw = ScenarioGrid) => seam = <<1, 1, 0>>

\* C3: for width >= 2 and height h >= 1 find_vertical_seam does not panic
\* and, at every point of the retrace loop, the seam built so far has one
\* entry per row visited, every entry a column of the image and adjacent
\* entries at most 1 apart; the seam returned has exactly h entries.
C3_SeamShape ==
    /\ status # "Image index out of bounds"
    /\ pc \in {"retrace", "find_return"} =>
         /\ Len(seam) = result.height - y
         /\ \A k \in 1..Len(seam) : seam[k] \in 0..(result.width - 1)
         /\ \A k \in 1..(Len(seam) - 1) : seam[k + 1] - seam[k] \in {-1, 0, 1}
    /\ pc = "find_return" => Len(seam) = result.height
    /\ (pc = "panicked" /\ op = "find_vertical_seam") => result.width < 2

C3_Witness ==
    /\ pc = "find_return"
    /\ result.width = 3 /\ result.height = 3
    /\ seam[1] # seam[2] /\ seam[2] # seam[3]

\* C4: for width w >= 2 and a seam of length h of valid columns,
\* remove_vertical_seam returns an image w - 1 wide and h high whose row y is
\* the input row without column s = seam[h-1-y]: output (x, y) is input
\* (x, y) for x < s and input (x + 1, y) for x >= s; the input is unchanged.
C4_RemoveDeletesSeamColumn ==
    (op = "remove_vertical_seam" /\ image.width >= 2
        /\ Len(arg_seam) = image.height /\ pc # "call") =>
        /\ pc \in {"done", "drawn"}
        /\ status = "ok"
        /\ out.width = image.width - 1
        /\ out.height = image.height
        /\ DOMAIN out.px = 0..(image.height - 1)
        /\ \A yy \in 0..(image.height - 1) :
             /\ DOMAIN out.px[yy] = 0..(image.width - 2)
             /\ \A xx \in 0..(image.width - 2) :
                  out.px[yy][xx] =
                     IF xx < SeamColumn(arg_seam, image.height, yy)
                     THEN image.px[yy][xx] ELSE image.px[yy][xx + 1]
        /\ image \in Images(image.width, image.height)

C4_Witness ==
    /\ op = "remove_vertical_seam" /\ pc = "done"
    /\ image = RampImage(3, 3)
    /\ arg_seam = <<0, 2, 1>>
    /\ out.px[0] = [xx \in 0..1 |-> IF xx = 0 THEN 10 ELSE 12]
    /\ out.px[2] = [xx \in 0..1 |-> 17 + xx]

ValidShrinkCall ==
    /\ op = "shrink_width"
    /\ 1 <= target_width /\ target_width <= image.width

ShrinkReturned == pc \in {"done", "drawn"}

C5_ShrinkInv ==
    (ValidShrinkCall /\ pc # "call") =>
        /\ pc # "panicked"
        /\ iterations = image.width - target_width
        /\ done_iters <= iterations
        /\ Len(seams) = done_iters
        /\ result.width = image.width - done_iters
        /\ result.height = image.height
        /\ InFind => /\ gradients.width = result.width
                     /\ gradients.height = result.height
        /\ pc = "remove_vertical_seam" =>
             /\ Len(seam) = result.height
             /\ \A k \in 1..Len(seam) : seam[k] \in 0..(result.width - 1)
        /\ ShrinkReturned =>
             /\ done_iters = iterations
             /\ out.width = target_width
             /\ out.height = image.height
             /\ target_width = image.width => out = image

\* An upper bound on the steps shrink_width has left: IterSteps for each
\* iteration not yet begun, and within an iteration the steps to its end.
IterSteps == image.width * image.height + image.width + image.height + 8

StepsLeft ==
    LET later == (iterations - done_iters - 1) * IterSteps + 2 IN
    CASE pc = "call" -> (image.width - target_width) * IterSteps + 3
      [] pc = "shrink_loop" -> (iterations - done_iters) * IterSteps + 2
      [] pc = "find_vertical_seam" -> later + IterSteps - 1
      [] pc = "accumulate" -> later + IterSteps - 2 - ((y - 1) * result.width + x)
      [] pc = "scan" -> later + image.width + image.height + 4
      [] pc = "scan_loop" -> later + image.width + image.height + 4 - x
      [] pc = "retrace" -> later + y + 3
      [] pc = "find_return" -> later + 2
      [] pc = "remove_vertical_seam" -> later + 1
      [] pc = "done" -> 1
      [] OTHER -> 0

\* C5: for height >= 1 and 1 <= target_width <= width, shrink_width
\* terminates after exactly width - target_width find/remove iterations,
\* each seam traced on the image the previous removal produced; after i
\* iterations the image is width - i wide and as high as the input, so the
\* result is target_width wide, and equal to the input when target_width =
\* width.  Termination: until it has returned a step can be taken, and
\* every step lowers StepsLeft, which is never negative.
C5_ShrinkWidth ==
    /\ []C5_ShrinkInv
    /\ [](ValidShrinkCall => StepsLeft >= 0 /\ (ShrinkReturned \/ ENABLED Next))
    /\ [][ValidShrinkCall => StepsLeft' < StepsLeft]_vars

C5_Witness ==
    /\ ValidShrinkCall /\ pc = "done"
    /\ image.width = 3 /\ image.height = 3 /\ target_width = 1
    /\ done_iters = 2
    /\ out.width = 1
    /\ seams[1] # seams[2]

\* The columns of the original image still present in row yy after the
\* first n seams of ss were removed, left to right, and the original column
\* of the pixel the n-th seam removed from row yy.
RemoveAt(sq, i) == [j \in 1..(Len(sq) - 1) |-> IF j < i THEN sq[j] ELSE sq[j + 1]]

RECURSIVE Survivors(_, _, _, _, _)
Survivors(w, h, ss, n, yy) ==
    IF n = 0 THEN [j \in 1..w |-> j - 1]
    ELSE RemoveAt(Survivors(w, h, ss, n - 1, yy), SeamColumn(ss[n], h, yy) + 1)

RemovedColumn(w, h, ss, n, yy) ==
    Survivors(w, h, ss, n - 1, yy)[SeamColumn(ss[n], h, yy) + 1]

Marked(img, yy) == { xx \in 0..(img.width - 1) : img.px[yy][xx] = Red }

\* C6: for a history of seams successively traced and removed,
\* draw_vertical_seams marks in each row exactly the original columns of the
\* pixels removed from that row: k distinct pixels for k seams, none marked
\* twice, no other pixel marked.
C6_DrawMarksRemovedPixels ==
    (pc = "drawn" /\ op = "shrink_width") =>
        \A yy \in 0..(image.height - 1) :
            /\ Marked(drawn, yy) =
                 { RemovedColumn(image.width, image.height, seams, n, yy) :
                     n \in 1..Len(seams) }
            /\ Cardinality(Marked(drawn, yy)) = Len(seams)

\* C7: for a history of one seam of length h on an image of height h,
\* draw_vertical_seams marks exactly h pixels, one per row, at column
\* seam[h-1-y] of row y, and every other pixel keeps the colour-converted
\* value of the original pixel.
C7_SingleSeamDrawnUnshifted ==
    (pc = "drawn" /\ Len(seams) = 1 /\ Len(seams[1]) = image.height) =>
        /\ drawn.width = image.width /\ drawn.height = image.height
        /\ \A yy \in 0..(image.height - 1) :
             /\ Marked(drawn, yy) = {SeamColumn(seams[1], image.height, yy)}
             /\ \A xx \in 0..(image.width - 1) :
                  xx # SeamColumn(seams[1], image.height, yy) =>
                     drawn.px[yy][xx] = to_rgb(image.px[yy][xx])

C7_Witness ==
    /\ pc = "drawn" /\ op = "remove_vertical_seam"
    /\ image = RampImage(3, 3)
    /\ seams = <<(<<2, 1, 0>>)>>
    /\ drawn.px[0][0] = Red /\ drawn.px[1][1] = Red /\ drawn.px[2][2] = Red
    /\ drawn.px[0][2] = <<12, 12, 12>>

SeamIsValid(s, w, h) ==
    /\ Len(s) = h
    /\ \A k \in 1..Len(s) : s[k] \in 0..(w - 1)
    /\ \A k \in 1..(Len(s) - 1) : s[k + 1] - s[k] \in {-1, 0, 1}

\* C8: on width 1 find_vertical_seam fails with the width assertion before
\* anything is accumulated or traced; on width 2 it succeeds, reads no cell
\* outside the grid during accumulation and retrace, and returns a valid
\* seam.
C8_WidthBoundary ==
    /\ (op = "find_vertical_seam" /\ image.width = 1 /\ pc # "call") =>
         /\ pc = "panicked"
         /\ status = "Cannot find seams if image width is < 2"
    /\ status = "Cannot find seams if image width is < 2" =>
         /\ result.width < 2
         /\ gradients = NoImage
    /\ (op = "find_vertical_seam" /\ image.width = 2) => pc # "panicked"
    /\ (InFind /\ result.width = 2) =>
         /\ status = "running"
         /\ gradients.width = 2 /\ gradients.height = result.height
         /\ (pc = "accumulate" /\ y < result.height) =>
               all_in_bounds(gradients, set_path_energy(gradients, x, y).reads)
         /\ (pc = "retrace" /\ y >= 1) =>
               all_in_bounds(gradients,
                   retrace_step(gradients, last_x, y, min_x, min_energy).reads)
         /\ pc = "find_return" => SeamIsValid(seam, 2, result.height)

C8_Witness ==
    /\ op = "find_vertical_seam" /\ pc = "find_return"
    /\ result.width = 2 /\ result.height = 3
    /\ seam[1] # seam[2]

\* C9: no public operation returns a zero-width image for an image of width
\* >= 1: remove_vertical_seam on a 1-column image with a seam of matching
\* length fails, and shrink_width with target_width = 0 fails.
C9_NoZeroWidthResult ==
    /\ (op = "remove_vertical_seam" /\ image.width = 1
          /\ Len(arg_seam) = image.height /\ pc # "call") => pc = "panicked"
    /\ (op = "shrink_width" /\ target_width = 0) => ~ShrinkReturned
    /\ (op \in {"shrink_width", "remove_vertical_seam"} /\ ShrinkReturned) =>
          out.width >= 1

\* The accumulated values of the in-bounds cells above (xx, yy).
AboveValues(g, xx, yy) ==
    { g.px[yy - 1][c] : c \in {xx - 1, xx, xx + 1} \cap (0..(g.width - 1)) }

\* Cell (xx, yy) has been written by the accumulation pass.
Accumulated(xx, yy) ==
    \/ pc # "accumulate"
    \/ yy < y
    \/ yy = y /\ xx < x

\* C10: during the in-place accumulation pass row 0 and the cells not yet
\* visited hold their raw energy and every visited cell holds raw + the
\* minimum of the accumulated in-bounds cells above it; after the pass
\* every cell (x, y) holds the minimal total raw energy of an 8-connected
\* path from row 0 to (x, y).
C10_AccumulationIsMinimalPathEnergy ==
    /\ InFind =>
         /\ gradients.width = raw.width /\ gradients.height = raw.height
         /\ \A yy \in 0..(raw.height - 1) : \A xx \in 0..(raw.width - 1) :
              gradients.px[yy][xx] =
                 IF yy >= 1 /\ Accumulated(xx, yy)
                 THEN raw.px[yy][xx] + Min(AboveValues(gradients, xx, yy))
                 ELSE raw.px[yy][xx]
    /\ pc = "scan" =>
         \A yy \in 0..(raw.height - 1) : \A xx \in 0..(raw.width - 1) :
              gradients.px[yy][xx] = MinPathTo(raw, xx, yy)

C10_Witness ==
    /\ pc = "scan"
    /\ raw.width = 3 /\ raw.height = 3
    /\ gradients.px[2][1] = raw.px[2][1] + gradients.px[1][0]
    /\ gradients.px[1][0] < gradients.px[1][1]
    /\ gradients.px[1][0] < gradients.px[1][2]
    /\ gradients.px[1][0] = raw.px[1][0] + raw.px[0][1]
    /\ raw.px[0][1] < raw.px[0][0]

====
